---- MODULE Spec2Model ----
(***************************************************************************)
(* Extraction, checkpoint/resume, incremental merge and rate limiting of   *)
(* core/data_loader.py, with the form-submit handler of Inicio.py as the   *)
(* caller.                                                                 *)
(*                                                                         *)
(* The state machines of this module:                                      *)
(*   Spec         the extraction runs of one user (full and incremental),  *)
(*                their checkpoint files and the session cache;            *)
(*   SpecOutcome  the full extraction, each call next to the one before;   *)
(*   SpecMerge    the merge of load_user_data_incremental on small tables; *)
(*   SpecLimiter / SpecLimiterConc   SmartRateLimiter with one / two       *)
(*                callers.                                                 *)
(***************************************************************************)
EXTENDS Integers, Sequences, FiniteSets, TLC

VARIABLES
    \* ---- Spec: the remote service and the persistent state
    svc,                  \* the user's history on the service, unchanged during a behaviour
    files,                \* temp_checkpoints/: kind -> [exists, rows]
    cache,                \* st.session_state["user_data_<user>"]
    \* ---- Spec: one call of load_user_data / load_user_data_incremental
    pc,                   \* "idle", "loop", "retry", "finalize", "done"
    kind,                 \* "full" or "incr"
    resume_arg,           \* the resume argument the caller passed
    resume,               \* the resume parameter the fetch function received
    from_timestamp,       \* incremental: last_timestamp of the existing table
    loaded,               \* [resumed, rows]: what the call read from the checkpoint
    all_rows, start_page, page, total_pages,
    attempt, success, consecutive_errors, reached_existing_data,
    page_requests,        \* requests sent for the current page
    first_page,           \* page number of the first request of this call, 0 if none
    fatalSeen,            \* the service answered this call with API error 6 or 17
    errorSeen,            \* some request of this call was answered with anything but a page
    pages_fetched,        \* the pages whose rows this call appended, in order
    last_requested,       \* page number of the latest request of this call, 0 if none
    progress_calls,       \* the calls of progress_callback in this call, in order
    fetched,              \* the table the fetch function returned
    ret,                  \* the value the load function returned
    branch,               \* the branch the form-submit handler took on ret
    outcome,              \* how the call ended
    prevRet, prevOutcome, \* SpecOutcome: ret and outcome of the call before this one
    \* ---- SpecMerge
    existing_df, new_df, merged, merged_again, mpc,
    \* ---- SpecLimiter, SpecLimiterConc
    now, requests_log, cpc, verdict,
    \* ---- SpecSave: one checkpoint file, a save and a load of it
    disk,                 \* the bytes of the file: [state, rows]
    wpc,                  \* where the save stands
    rpc,                  \* what the load did
    \* ---- the specifications of single functions: the arguments and the result
    input, output

varsEnv == << svc >>
varsStore == << files, cache >>
varsCall == << kind, resume_arg, resume, from_timestamp, loaded >>
varsLocal == << all_rows, start_page, page, total_pages, attempt, success,
               consecutive_errors, reached_existing_data, page_requests >>
varsSeen == << first_page, fatalSeen, errorSeen, pages_fetched, last_requested,
              progress_calls >>
varsResult == << fetched, ret, branch, outcome >>
varsX == << varsEnv, varsStore, pc, varsCall, varsLocal, varsSeen, varsResult >>
varsO == << prevRet, prevOutcome >>
varsM == << existing_df, new_df, merged, merged_again, mpc >>
varsL == << now, requests_log, cpc, verdict >>
varsS == << disk, wpc, rpc >>
varsP == << input, output >>
varsR == << varsS, varsP >>
vars == << varsX, varsO, varsM, varsL, varsR >>

(***************************************************************************)
(* Sizes.  The source's numbers are limit=200 rows per page, a checkpoint  *)
(* every 50 pages, 5 attempts per page and 10 consecutive failed pages;    *)
(* the model keeps their roles and runs them at small values.              *)
(***************************************************************************)
MaxPages == 3
PageSize == 2
CheckpointEvery == 2
max_retries == 2
max_consecutive_errors == 2
\* SpecMerge: the tables handed to the merge hold up to MaxRows rows with
\* timestamps 1..MaxTs.
MaxRows == 2
MaxTs == 2
\* SpecLimiter, SpecLimiterConc: the source's ceilings are 5 per second, 300 per
\* minute and 15000 per hour, run here at small values in the same order; the
\* callers stop recording once the log holds MaxLog entries.
\* The clock of the limiter is read in ticks of 1/TicksPerSecond s.
TicksPerSecond == 2
max_per_second == 2
max_per_minute == 3
max_per_hour == 4
MaxLog == 5
\* SpecPath: user names hold up to MaxName pieces.
MaxName == 3

Min(a, b) == IF a < b THEN a ELSE b

\* ------------------------------------------------------------------ rows
User == "u"

\* One row of a table (url is carried like album and left out).
RowOf(uts, track, album) ==
    [user |-> User, datetime_utc |-> uts, artist |-> "a", album |-> album, track |-> track]

\* The row the page loop appends for an entry of the service.
Row(uts) == RowOf(uts, "t", "al")

Key3(r) == << r.datetime_utc, r.artist, r.track >>
Key4(r) == << r.user, r.datetime_utc, r.artist, r.track >>

\* pd.DataFrame: the rows and whether the derived calendar columns are present.
DataFrame(rows, final) == [type |-> "DataFrame", rows |-> rows, final |-> final]
None == [type |-> "None", rows |-> << >>, final |-> FALSE]
NoFile == [exists |-> FALSE, rows |-> << >>]
File(rows) == [exists |-> TRUE, rows |-> rows]

Range(s) == { s[i] : i \in 1..Len(s) }

\* ------------------------------------------------------------- the service
\* Page p of user.getrecenttracks, newest first: every page is full but the last.
EntriesOn(s, p) == IF p < s.total THEN PageSize ELSE IF p = s.total THEN s.last ELSE 0

Uts(s, p, i) == IF p = s.total THEN s.last - i + 1
                ELSE s.last + (s.total - 1 - p) * PageSize + (PageSize - i + 1)

\* "ok", or the one entry of the newest page that has no date ("now_playing": the
\* track being played leads the first page), a date that int() rejects
\* ("bad_uts") or a date of digits that int() accepts and that lies outside the
\* range of time_t ("overflow_uts").
EntryKind(s, p, i) == IF s.bad.slot = << p, i >> THEN s.bad.kind ELSE "ok"

PageTracks(s, p) == [ i \in 1..EntriesOn(s, p) |->
                        [uts |-> Uts(s, p, i), kind |-> EntryKind(s, p, i)] ]

TotalScrobbles(s) == s.last + (s.total - 1) * PageSize

Services ==
    { [total |-> t, last |-> l, bad |-> b] :
        t \in 1..MaxPages, l \in 0..PageSize,
        b \in {[slot |-> << 0, 0 >>, kind |-> "ok"]}
              \cup {[slot |-> << 1, 1 >>, kind |-> "now_playing"]}
              \cup { [slot |-> << 1, i >>, kind |-> "bad_uts"] : i \in 1..PageSize }
              \cup {[slot |-> << 1, 1 >>, kind |-> "overflow_uts"]} }

ServiceOk(s) ==
    /\ s.total > 1 => s.last >= 1
    /\ s.bad.kind # "ok" =>
         /\ s.bad.slot[1] <= s.total
         /\ s.bad.slot[2] <= EntriesOn(s, s.bad.slot[1])

\* What one request can be answered with.
Fatal == {"api6", "api17"}
Responses == {"ok", "http429", "http503", "timeout", "connection_error",
              "http_error", "api29", "api_other"} \cup Fatal


\* ------------------------------------------------------- parsing one page
\* datetime.fromtimestamp(int(uts), tz=timezone.utc) raises OverflowError for a
\* date outside the range of time_t; except (ValueError, TypeError) does not
\* catch it, so the loop over the tracks of the full extraction raises when the
\* page holds such an entry.
Raises(tracks) == \E i \in 1..Len(tracks) : tracks[i].kind = "overflow_uts"

\* The loop of the incremental extraction raises when it comes to such an entry
\* before it breaks at an entry at or before from_timestamp.
RaisesSince(tracks, T) ==
    \E i \in 1..Len(tracks) :
       /\ tracks[i].kind = "overflow_uts"
       /\ \A j \in 1..(i - 1) : tracks[j].kind = "ok" => tracks[j].uts > T

\* The loop over tracks of the full extraction: an entry without a date and an
\* entry whose date int() rejects are skipped, every other entry is appended.
RECURSIVE ParseTracks(_)
ParseTracks(tracks) ==
    IF tracks = << >> THEN << >>
    ELSE IF Head(tracks).kind = "ok"
         THEN << Row(Head(tracks).uts) >> \o ParseTracks(Tail(tracks))
         ELSE ParseTracks(Tail(tracks))

\* Every row the service holds for the user with a completed, well-formed date:
\* what an extraction that fetches every page returns.
RECURSIVE RowsOfPages(_, _, _)
RowsOfPages(s, p, q) ==
    IF p > q THEN << >> ELSE ParseTracks(PageTracks(s, p)) \o RowsOfPages(s, p + 1, q)

\* The loop of the incremental extraction with fecha_dt < from_timestamp as its
\* test: the row at from_timestamp itself is appended.
RECURSIVE ParseTracksSinceStrict(_, _)
ParseTracksSinceStrict(tracks, T) ==
    IF tracks = << >> THEN [rows |-> << >>, reached |-> FALSE]
    ELSE IF Head(tracks).kind # "ok" THEN ParseTracksSinceStrict(Tail(tracks), T)
    ELSE IF Head(tracks).uts < T THEN [rows |-> << >>, reached |-> TRUE]
    ELSE LET rest == ParseTracksSinceStrict(Tail(tracks), T)
         IN  [rows |-> << Row(Head(tracks).uts) >> \o rest.rows, reached |-> rest.reached]

\* The same loop of the incremental extraction: it stops at the first entry
\* whose date is at or before from_timestamp.
RECURSIVE ParseTracksSince(_, _)
ParseTracksSince(tracks, T) ==
    IF tracks = << >> THEN [rows |-> << >>, reached |-> FALSE]
    ELSE IF Head(tracks).kind # "ok" THEN ParseTracksSince(Tail(tracks), T)
    ELSE IF Head(tracks).uts <= T THEN [rows |-> << >>, reached |-> TRUE]
    ELSE LET rest == ParseTracksSince(Tail(tracks), T)
         IN  [rows |-> << Row(Head(tracks).uts) >> \o rest.rows, reached |-> rest.reached]

\* --------------------------------------------------------------- the merge
\* drop_duplicates(subset=["datetime_utc", "artist", "track"], keep=False):
\* every row whose key occurs more than once is dropped.
DropDuplicatesNone(s) ==
    LET keep(i) == \A j \in 1..Len(s) : j # i => Key3(s[j]) # Key3(s[i])
        F[i \in 0..Len(s)] ==
            IF i = 0 THEN << >>
            ELSE IF keep(i) THEN Append(F[i - 1], s[i]) ELSE F[i - 1]
    IN  F[Len(s)]

\* drop_duplicates(subset=["datetime_utc", "artist", "track"], keep="last")
DropDuplicatesLast(s) ==
    LET keep(i) == \A j \in (i + 1)..Len(s) : Key3(s[j]) # Key3(s[i])
        F[i \in 0..Len(s)] ==
            IF i = 0 THEN << >>
            ELSE IF keep(i) THEN Append(F[i - 1], s[i]) ELSE F[i - 1]
    IN  F[Len(s)]

RemoveAt(s, i) == SubSeq(s, 1, i - 1) \o SubSeq(s, i + 1, Len(s))

\* sort_values("datetime_utc"): ascending; the default sort kind is not stable, so
\* rows of equal datetime_utc may come out in any order.  (The table is bound to
\* s once, so that it is evaluated once per call.)
RECURSIVE SortValues(_)
SortValues(table) ==
    UNION { IF s = << >> THEN { << >> }
            ELSE LET least == { i \in 1..Len(s) :
                                  \A j \in 1..Len(s) : s[i].datetime_utc <= s[j].datetime_utc }
                 IN  UNION { { << s[i] >> \o r : r \in SortValues(RemoveAt(s, i)) } : i \in least }
            : s \in { table } }

\* prepare_final_dataframe: an empty table is returned as it is, any other gets
\* the derived columns recomputed from datetime_utc.
prepare_final_dataframe(df) ==
    IF df.rows = << >> THEN df ELSE DataFrame(df.rows, TRUE)

\* load_user_data_incremental after the fetch: the tables it can return for the
\* existing table and the fetched one.
MergeResults(old, new) ==
    IF new = None \/ new.rows = << >>
    THEN { prepare_final_dataframe(old) }
    ELSE { prepare_final_dataframe(DataFrame(s, FALSE)) :
             s \in SortValues(DropDuplicatesLast(old.rows \o new.rows)) }

\* The except branch of load_user_data_incremental.
MergeFallback(old) == prepare_final_dataframe(old)

\* The table the caller holds before an incremental load: the rows of the user's
\* history up to last_timestamp, oldest first, as a downloaded CSV has them.
ExistingUpTo(s, T) ==
    DataFrame([ i \in 1..Min(T, TotalScrobbles(s)) |-> Row(i) ], FALSE)

\* ---------------------------------------------------------------- the caller
\* The form-submit handler: a dict carrying "incomplete", a non-empty table, or
\* anything else.
CallerBranch(r) ==
    IF r.type = "dict" /\ r.incomplete THEN "incomplete"
    ELSE IF r # None /\ r.rows # << >> THEN "loaded"
    ELSE "failed"

\* ------------------------------------------------------------ Spec: the runs
NoResult == /\ fetched = None /\ ret = None /\ branch = "none" /\ outcome = "none"

InitLocals ==
    /\ all_rows = << >>
    /\ start_page = 1
    /\ page = 1
    /\ total_pages = 1
    /\ attempt = 1
    /\ success = FALSE
    /\ consecutive_errors = 0
    /\ reached_existing_data = FALSE
    /\ page_requests = 0

\* Before the first call: nothing cached, no call under way.
InitRun ==
    /\ cache = None
    /\ pc = "idle"
    /\ kind = "full"
    /\ resume_arg = FALSE
    /\ resume = FALSE
    /\ from_timestamp = 0
    /\ loaded = [resumed |-> FALSE, rows |-> << >>]
    /\ InitLocals
    /\ first_page = 0
    /\ fatalSeen = FALSE
    /\ errorSeen = FALSE
    /\ pages_fetched = << >>
    /\ last_requested = 0
    /\ progress_calls = << >>
    /\ NoResult

InitX ==
    /\ svc \in { s \in Services : ServiceOk(s) }
    /\ files = [k \in {"full", "incr"} |-> NoFile]
    /\ InitRun

InitO == prevRet = None /\ prevOutcome = "none"

\* How the claim's three outcomes classify a finished call: a call the service
\* answered with a fatal API error is a failed one.
ClaimOutcome == IF fatalSeen THEN "FAILED" ELSE outcome

\* The locals of a call are discarded when it returns.
DropLocals ==
    /\ all_rows' = << >>
    /\ start_page' = 1
    /\ page' = 1
    /\ total_pages' = 1
    /\ attempt' = 1
    /\ success' = FALSE
    /\ consecutive_errors' = 0
    /\ reached_existing_data' = FALSE
    /\ page_requests' = 0

\* The call returns r to the form-submit handler.
Return(r, how) ==
    /\ ret' = r
    /\ branch' = CallerBranch(r)
    /\ outcome' = how
    /\ pc' = "done"
    /\ DropLocals

\* A new call starts.
NewCall(k, r, T) ==
    /\ pc \in {"idle", "done"}
    /\ kind' = k
    /\ resume_arg' = r
    /\ from_timestamp' = T
    /\ first_page' = 0
    /\ fatalSeen' = FALSE
    /\ errorSeen' = FALSE
    /\ pages_fetched' = << >>
    /\ last_requested' = 0
    /\ progress_calls' = << >>
    /\ UNCHANGED svc

\* A call that returns before the fetch function reads the checkpoint.
ReturnEarly(r, how, res) ==
    /\ Return(r, how)
    /\ resume' = res
    /\ loaded' = [resumed |-> FALSE, rows |-> << >>]
    /\ fetched' = None

\* The head of fetch_user_data_optimized_sequential / fetch_user_data_incremental:
\* the checkpoint is read when resume is set and the file exists.
Begin(k, res) ==
    LET have == res /\ files[k].exists
        rows == IF have THEN files[k].rows ELSE << >>
    IN  /\ resume' = res
        /\ loaded' = [resumed |-> have, rows |-> rows]
        /\ all_rows' = rows
        /\ start_page' = IF have THEN (Len(rows) \div PageSize) + 1 ELSE 1
        /\ page' = IF have THEN (Len(rows) \div PageSize) + 1 ELSE 1
        /\ total_pages' = 1
        /\ attempt' = 1
        /\ success' = FALSE
        /\ consecutive_errors' = 0
        /\ reached_existing_data' = FALSE
        /\ page_requests' = 0
        /\ pc' = "loop"
        /\ fetched' = None
        /\ ret' = None
        /\ branch' = "none"
        /\ outcome' = "none"
        /\ UNCHANGED << files, cache >>

\* load_user_data(user, progress_callback, resume): the cached table if there is
\* one; else fetch_user_data_from_api(user, progress_callback), which is called
\* without the resume argument and so runs with its default, resume=True.
\* keyOk: whether get_api_key finds secrets.toml; when it does not, the
\* FileNotFoundError is caught and None is returned.
LoadUserDataCall ==
    \E r \in BOOLEAN, keyOk \in BOOLEAN :
      /\ NewCall("full", r, 0)
      /\ IF cache # None
         THEN ReturnEarly(cache, "CACHED", FALSE) /\ UNCHANGED << files, cache >>
         ELSE IF ~keyOk
         THEN ReturnEarly(None, "FAILED", TRUE) /\ UNCHANGED << files, cache >>
         ELSE Begin("full", TRUE)

LoadUserData == LoadUserDataCall /\ UNCHANGED << varsO, varsM, varsL, varsR >>

\* load_user_data_incremental(user, cb, existing_df, last_timestamp, resume) with a
\* non-empty existing table; when get_api_key raises, the except branch caches
\* and returns the existing table.
LoadUserDataIncrementalCall ==
    \E r \in BOOLEAN, keyOk \in BOOLEAN, T \in 1..TotalScrobbles(svc) :
      /\ NewCall("incr", r, T)
      /\ IF ~keyOk
         THEN /\ ReturnEarly(MergeFallback(ExistingUpTo(svc, T)), "FAILED", r)
              /\ cache' = MergeFallback(ExistingUpTo(svc, T))
              /\ UNCHANGED files
         ELSE Begin("incr", r)

LoadUserDataIncremental ==
    LoadUserDataIncrementalCall /\ UNCHANGED << varsO, varsM, varsL, varsR >>

\* The while condition with the last page left out.
LoopConditionShort ==
    page < total_pages /\ (kind = "incr" => ~reached_existing_data)

\* The while condition of the page loop.
LoopCondition ==
    page <= total_pages /\ (kind = "incr" => ~reached_existing_data)

\* The head of one pass of the page loop: wait_if_needed() has returned, and the
\* retry loop starts with attempt = 1.
EnterPageCore ==
    /\ pc = "loop"
    /\ LoopCondition
    /\ attempt' = 1
    /\ success' = FALSE
    /\ page_requests' = 0
    /\ pc' = "retry"
    /\ UNCHANGED << all_rows, start_page, page, total_pages, consecutive_errors,
                    reached_existing_data >>
    /\ UNCHANGED << varsEnv, varsStore, varsCall, varsSeen, varsResult >>
    /\ UNCHANGED << varsO, varsM, varsR >>

\* The same with the limiter left aside: it admits the request at once.
EnterPage == EnterPageCore /\ UNCHANGED varsL

\* The retry loop without the reset of consecutive_errors on a success.
HandleResponseNoReset(resp) ==
    IF resp = "ok"
    THEN /\ success' = TRUE
         /\ UNCHANGED << attempt, consecutive_errors >>
    ELSE /\ attempt' = attempt + 1
         /\ UNCHANGED << success, consecutive_errors >>

\* What the retry loop does with one answer.  HTTP 429 and 503 and API error 29
\* sleep and count an attempt; a timeout and a connection error are caught and
\* count an attempt; the ValueError raised for API errors 17, 6 and any other
\* code, like the HTTP error of raise_for_status(), is caught by the last except
\* clause and counts an attempt too.
HandleResponse(resp) ==
    IF resp = "ok"
    THEN /\ success' = TRUE
         /\ consecutive_errors' = 0
         /\ UNCHANGED attempt
    ELSE /\ attempt' = attempt + 1
         /\ UNCHANGED << success, consecutive_errors >>

\* One pass of the retry loop: record_request(), requests.get(), the answer.
RequestCore ==
    /\ pc = "retry"
    /\ attempt <= max_retries
    /\ ~success
    /\ \E resp \in Responses :
         /\ page_requests' = page_requests + 1
         /\ first_page' = IF first_page = 0 THEN page ELSE first_page
         /\ fatalSeen' = (fatalSeen \/ resp \in Fatal)
         /\ errorSeen' = (errorSeen \/ resp # "ok")
         /\ HandleResponse(resp)
    /\ last_requested' = page
    /\ UNCHANGED << pages_fetched, progress_calls >>
    /\ UNCHANGED << all_rows, start_page, page, total_pages, reached_existing_data >>
    /\ UNCHANGED << varsEnv, varsStore, pc, varsCall, varsResult >>
    /\ UNCHANGED << varsO, varsM, varsR >>

\* The same with the log of the limiter left aside.
Request == RequestCore /\ UNCHANGED varsL

\* load_user_data after the fetch returned df: a non-empty table is cached.
ReturnFull(df, how) ==
    /\ fetched' = df
    /\ cache' = IF df.rows # << >> THEN df ELSE cache
    /\ Return(df, how)

\* load_user_data_incremental after the fetch returned new_df: the merged table
\* (or the existing one) is cached and returned.
ReturnIncr(new, how) ==
    /\ fetched' = new
    /\ \E m \in MergeResults(ExistingUpTo(svc, from_timestamp), new) :
         /\ cache' = m
         /\ Return(m, how)

\* The skip of a failed page without page += 1: the page is entered again.
PageFailedSkipSamePage ==
    /\ pc = "retry"
    /\ ~success
    /\ attempt > max_retries
    /\ consecutive_errors + 1 < max_consecutive_errors
    /\ consecutive_errors' = consecutive_errors + 1
    /\ pc' = "loop"
    /\ UNCHANGED << all_rows, start_page, page, total_pages, attempt, success,
                    reached_existing_data, page_requests >>
    /\ UNCHANGED << varsEnv, varsStore, varsCall, varsSeen, varsResult >>
    /\ UNCHANGED << varsO, varsM, varsL, varsR >>

\* The retries of the page are used up: the page counts as one consecutive error
\* and is skipped.
PageFailedSkip ==
    /\ pc = "retry"
    /\ ~success
    /\ attempt > max_retries
    /\ consecutive_errors + 1 < max_consecutive_errors
    /\ consecutive_errors' = consecutive_errors + 1
    /\ page' = page + 1
    /\ pc' = "loop"
    /\ UNCHANGED << all_rows, start_page, total_pages, attempt, success,
                    reached_existing_data, page_requests >>
    /\ UNCHANGED << varsEnv, varsStore, varsCall, varsSeen, varsResult >>
    /\ UNCHANGED << varsO, varsM, varsL, varsR >>

\* The return at the ceiling without the write of the checkpoint.
PageFailedPauseNoSave ==
    /\ pc = "retry"
    /\ ~success
    /\ attempt > max_retries
    /\ consecutive_errors + 1 >= max_consecutive_errors
    /\ UNCHANGED files
    /\ IF kind = "full"
       THEN ReturnFull(DataFrame(all_rows, FALSE), "INCOMPLETE_PAUSED")
       ELSE ReturnIncr(DataFrame(all_rows, FALSE), "INCOMPLETE_PAUSED")
    /\ UNCHANGED << varsEnv, varsCall, varsSeen >>
    /\ UNCHANGED << varsO, varsM, varsL, varsR >>

\* The retries of the page are used up and the consecutive errors reach the
\* ceiling: the rows are written to the checkpoint (when there are any) and
\* pd.DataFrame(all_rows) is returned.
PageFailedPause ==
    /\ pc = "retry"
    /\ ~success
    /\ attempt > max_retries
    /\ consecutive_errors + 1 >= max_consecutive_errors
    /\ files' = IF all_rows # << >>
                THEN [files EXCEPT ![kind] = File(all_rows)] ELSE files
    /\ IF kind = "full"
       THEN ReturnFull(DataFrame(all_rows, FALSE), "INCOMPLETE_PAUSED")
       ELSE ReturnIncr(DataFrame(all_rows, FALSE), "INCOMPLETE_PAUSED")
    /\ UNCHANGED << varsEnv, varsCall, varsSeen >>
    /\ UNCHANGED << varsO, varsM, varsL, varsR >>

\* Whether the loop over the tracks of the page just fetched raises.
TrackLoopRaises ==
    IF kind = "full" THEN Raises(PageTracks(svc, page))
    ELSE /\ ~ (page = start_page /\ TotalScrobbles(svc) = 0)
         /\ RaisesSince(PageTracks(svc, page), from_timestamp)

\* The loop over the tracks raised: the exception leaves the fetch function past
\* its checkpoint and finalization code. load_user_data catches it and returns
\* None; load_user_data_incremental catches it, caches the existing table and
\* returns it.
TrackLoopRaised ==
    /\ pc = "retry"
    /\ success
    /\ TrackLoopRaises
    /\ fetched' = None
    /\ IF kind = "full"
       THEN /\ Return(None, "FAILED")
            /\ UNCHANGED cache
       ELSE /\ Return(MergeFallback(ExistingUpTo(svc, from_timestamp)), "FAILED")
            /\ cache' = MergeFallback(ExistingUpTo(svc, from_timestamp))
    /\ UNCHANGED << files, varsEnv, varsCall, varsSeen >>
    /\ UNCHANGED << varsO, varsM, varsL, varsR >>

\* progress_callback(page, total_pages, len(all_rows), progress_info)
ProgressCall(p, total, rows) ==
    [current_page |-> p, total_pages |-> total, total_scrobbles |-> Len(rows)]

\* A successful page of the full extraction: totalPages is read on the start
\* page, the rows are appended, every CheckpointEvery-th page writes the
\* checkpoint, the progress callback runs and the page number advances.
ProcessPageFull ==
    /\ pc = "retry"
    /\ success
    /\ kind = "full"
    /\ ~TrackLoopRaises
    /\ LET rows == all_rows \o ParseTracks(PageTracks(svc, page))
       IN  /\ total_pages' = IF page = start_page THEN svc.total ELSE total_pages
           /\ all_rows' = rows
           /\ files' = IF page % CheckpointEvery = 0 /\ rows # << >>
                       THEN [files EXCEPT !["full"] = File(rows)] ELSE files
           /\ progress_calls' =
                Append(progress_calls, ProgressCall(page, total_pages', rows))
    /\ page' = page + 1
    /\ pc' = "loop"
    /\ pages_fetched' = Append(pages_fetched, page)
    /\ UNCHANGED << start_page, attempt, success, consecutive_errors,
                    reached_existing_data, page_requests, cache >>
    /\ UNCHANGED << varsEnv, varsCall, first_page, fatalSeen, errorSeen,
                    last_requested, varsResult >>
    /\ UNCHANGED << varsO, varsM, varsL, varsR >>

\* A successful page of the incremental extraction: a first page reporting no
\* scrobbles ends the loop; rows are appended up to the first one at or before
\* from_timestamp, which ends the loop as well, before the checkpoint, the
\* callback and the page increment.
ProcessPageIncr ==
    /\ pc = "retry"
    /\ success
    /\ kind = "incr"
    /\ ~TrackLoopRaises
    /\ LET parsed == ParseTracksSince(PageTracks(svc, page), from_timestamp)
           rows == all_rows \o parsed.rows
           none == page = start_page /\ TotalScrobbles(svc) = 0
       IN  /\ total_pages' = IF page = start_page THEN svc.total ELSE total_pages
           /\ IF none
              THEN /\ pc' = "finalize"
                   /\ UNCHANGED << all_rows, reached_existing_data, files, page,
                                   progress_calls >>
              ELSE /\ all_rows' = rows
                   /\ reached_existing_data' = parsed.reached
                   /\ IF parsed.reached
                      THEN /\ pc' = "finalize"
                           /\ UNCHANGED << files, page, progress_calls >>
                      ELSE /\ files' = IF page % CheckpointEvery = 0 /\ rows # << >>
                                       THEN [files EXCEPT !["incr"] = File(rows)]
                                       ELSE files
                           /\ progress_calls' =
                                Append(progress_calls,
                                       ProgressCall(page, total_pages', rows))
                           /\ page' = page + 1
                           /\ pc' = "loop"
    /\ pages_fetched' = Append(pages_fetched, page)
    /\ UNCHANGED << start_page, attempt, success, consecutive_errors, page_requests,
                    cache >>
    /\ UNCHANGED << varsEnv, varsCall, first_page, fatalSeen, errorSeen,
                    last_requested, varsResult >>
    /\ UNCHANGED << varsO, varsM, varsL, varsR >>

\* After the loop of the full extraction: the derived columns are added to a
\* non-empty table, the checkpoint file is removed, the table is returned.
FinalizeFull ==
    /\ kind = "full"
    /\ pc = "finalize" \/ (pc = "loop" /\ ~LoopCondition)
    /\ files' = [files EXCEPT !["full"] = NoFile]
    /\ ReturnFull(DataFrame(all_rows, all_rows # << >>), "COMPLETE")
    /\ UNCHANGED << varsEnv, varsCall, varsSeen >>
    /\ UNCHANGED << varsO, varsM, varsL, varsR >>

\* After the loop of the incremental extraction: the rows are sorted by
\* datetime_utc, the checkpoint file is removed, the table is returned.
FinalizeIncr ==
    /\ kind = "incr"
    /\ pc = "finalize" \/ (pc = "loop" /\ ~LoopCondition)
    /\ files' = [files EXCEPT !["incr"] = NoFile]
    /\ \E s \in SortValues(all_rows) : ReturnIncr(DataFrame(s, FALSE), "COMPLETE")
    /\ UNCHANGED << varsEnv, varsCall, varsSeen >>
    /\ UNCHANGED << varsO, varsM, varsL, varsR >>

\* The call is cut off between two steps (the session ends, the process stops):
\* nothing is returned and the files stay as they are.
Interrupt ==
    /\ pc \in {"loop", "retry", "finalize"}
    /\ pc' = "idle"
    /\ DropLocals
    /\ UNCHANGED << varsEnv, varsStore, varsCall, varsSeen, varsResult >>
    /\ UNCHANGED << varsO, varsM, varsL, varsR >>

\* clear_cache(user)
ClearCache ==
    /\ pc \in {"idle", "done"}
    /\ cache # None
    /\ cache' = None
    /\ UNCHANGED << varsEnv, files, pc, varsCall, varsLocal, varsSeen, varsResult >>
    /\ UNCHANGED << varsO, varsM, varsL, varsR >>

\* The variables of the other state machines, at rest.
RestX ==
    /\ InitX
    /\ svc = [total |-> 1, last |-> 0, bad |-> [slot |-> << 0, 0 >>, kind |-> "ok"]]

RestM ==
    /\ existing_df = None /\ new_df = None /\ merged = None /\ merged_again = None
    /\ mpc = "off"

RestL == now = 0 /\ requests_log = << >> /\ cpc = << >> /\ verdict = << >>

RestS == disk = NoFile /\ wpc = "off" /\ rpc = "off"

RestP == input = << >> /\ output = << >>

RestR == RestS /\ RestP

Init == InitX /\ InitO /\ RestM /\ RestL /\ RestR

Next ==
    \/ LoadUserData
    \/ LoadUserDataIncremental
    \/ EnterPage
    \/ Request
    \/ PageFailedSkip
    \/ PageFailedPause
    \/ ProcessPageFull
    \/ ProcessPageIncr
    \/ TrackLoopRaised
    \/ FinalizeFull
    \/ FinalizeIncr
    \/ Interrupt
    \/ ClearCache

Spec == Init /\ [][Next]_vars


\* --------------------------------------------- SpecOutcome: two calls compared
\* The full extraction alone, with the return value and the outcome of each
\* finished call kept while the next call runs.
LoadUserDataObserved ==
    /\ LoadUserDataCall
    /\ prevRet' = IF pc = "done" THEN ret ELSE prevRet
    /\ prevOutcome' = IF pc = "done" THEN ClaimOutcome ELSE prevOutcome
    /\ UNCHANGED << varsM, varsL, varsR >>

NextOutcome ==
    \/ LoadUserDataObserved
    \/ EnterPage
    \/ Request
    \/ PageFailedSkip
    \/ PageFailedPause
    \/ ProcessPageFull
    \/ TrackLoopRaised
    \/ FinalizeFull
    \/ ClearCache

SpecOutcome == Init /\ [][NextOutcome]_vars

\* ------------------------------------- SpecMerge: the merge on small tables
Tracks == {"t", "t2"}
Albums == {"al", "al2"}
Rows == { RowOf(u, tr, al) : u \in 1..MaxTs, tr \in Tracks, al \in Albums }
Tables == UNION { [1..k -> Rows] : k \in 0..MaxRows }

\* load_user_data_incremental is entered with a non-empty existing table (an
\* uploaded CSV or an earlier extraction); fetch_user_data_incremental returns
\* None or a table.
InitM ==
    /\ existing_df \in { DataFrame(s, FALSE) : s \in Tables \ { << >> } }
    /\ new_df \in {None} \cup { DataFrame(s, FALSE) : s \in Tables }
    /\ merged = None
    /\ merged_again = None
    /\ mpc = "start"

\* The fetch returned new_df: the table load_user_data_incremental returns.
MergeFetched ==
    /\ mpc = "start"
    /\ \E m \in MergeResults(existing_df, new_df) : merged' = m
    /\ mpc' = "merged"
    /\ UNCHANGED << existing_df, new_df, merged_again >>
    /\ UNCHANGED << varsX, varsO, varsL, varsR >>

\* The fetch raised: the except branch returns the existing table.
MergeExcept ==
    /\ mpc = "start"
    /\ merged' = MergeFallback(existing_df)
    /\ mpc' = "merged"
    /\ UNCHANGED << existing_df, new_df, merged_again >>
    /\ UNCHANGED << varsX, varsO, varsL, varsR >>

\* The returned table is handed in again as the fetched rows of a second merge
\* with the same existing table.
MergeAgain ==
    /\ mpc = "merged"
    /\ \E m \in MergeResults(existing_df, merged) : merged_again' = m
    /\ mpc' = "again"
    /\ UNCHANGED << existing_df, new_df, merged >>
    /\ UNCHANGED << varsX, varsO, varsL, varsR >>

InitMerge == RestX /\ InitO /\ InitM /\ RestL /\ RestR

NextMerge == MergeFetched \/ MergeExcept \/ MergeAgain

SpecMerge == InitMerge /\ [][NextMerge]_vars

\* ------------------------- SpecLimiter, SpecLimiterConc: SmartRateLimiter
\* The windows of can_make_request (1.0 s, 60.0 s, 3600 s), in ticks of the clock.
SecondWindow == TicksPerSecond
MinuteWindow == 60 * TicksPerSecond
HourWindow == 3600 * TicksPerSecond

\* The readings of time.time() at which the callers act, in ticks: within the
\* first second, and around one second, one minute and one hour later.
Instants == {0, 1, SecondWindow, SecondWindow + 1, MinuteWindow, MinuteWindow + 1,
             HourWindow, HourWindow + 1, HourWindow + SecondWindow + 1}

\* can_make_request without the loop that pops the old entries.
PurgeNever(log, t) == log

\* The while loop at the head of can_make_request: entries older than one hour
\* are popped from the left.
RECURSIVE Purge(_, _)
Purge(log, t) ==
    IF log # << >> /\ t - Head(log) > HourWindow THEN Purge(Tail(log), t) ELSE log

\* sum(1 for t in requests_log if (now - t) < w)
Recent(log, t, w) == Cardinality({ i \in 1..Len(log) : t - log[i] < w })

\* can_make_request with only the per-second and the per-hour ceiling.
can_make_request_no_minute(log, t) ==
    LET kept == Purge(log, t)
    IN  [log |-> kept,
         ok  |-> /\ Recent(kept, t, SecondWindow) < max_per_second
                 /\ Len(kept) < max_per_hour]

\* can_make_request, the part under the lock, for the reading t of the clock: the
\* purged log and the value returned.
can_make_request(log, t) ==
    LET kept == Purge(log, t)
    IN  [log |-> kept,
         ok  |-> /\ Recent(kept, t, SecondWindow) < max_per_second
                 /\ Recent(kept, t, MinuteWindow) < max_per_minute
                 /\ Len(kept) < max_per_hour]

\* A caller: where it stands and the reading of the clock it holds.
Caller(at, t) == [at |-> at, t |-> t]

\* What can_make_request returned, as the caller holds it.
Returned(b) == IF b THEN "True" ELSE "False"

NoVerdict == [c \in DOMAIN cpc |-> "none"]

InitL(callers) ==
    /\ now = 0
    /\ requests_log = << >>
    /\ cpc = [c \in callers |-> Caller("idle", 0)]
    /\ verdict = [c \in callers |-> "none"]

\* Time passes; a caller asleep in wait_if_needed wakes up and tests again.
Advance ==
    /\ \E t \in Instants : t > now /\ now' = t
    /\ cpc' = [c \in DOMAIN cpc |->
                 IF cpc[c].at = "sleeping" THEN Caller("idle", 0) ELSE cpc[c]]
    /\ verdict' = NoVerdict
    /\ UNCHANGED requests_log
    /\ UNCHANGED << varsX, varsO, varsM, varsR >>

\* The single caller calls can_make_request().
CanMakeRequest ==
    /\ \E c \in DOMAIN cpc :
         /\ cpc[c].at = "idle"
         /\ LET r == can_make_request(requests_log, now)
            IN  /\ requests_log' = r.log
                /\ verdict' = [verdict EXCEPT ![c] = Returned(r.ok)]
    /\ UNCHANGED << now, cpc >>
    /\ UNCHANGED << varsX, varsO, varsM, varsR >>

\* The single caller calls record_request().
RecordRequest ==
    /\ \E c \in DOMAIN cpc : cpc[c].at = "idle"
    /\ Len(requests_log) < MaxLog
    /\ requests_log' = Append(requests_log, now)
    /\ verdict' = NoVerdict
    /\ UNCHANGED << now, cpc >>
    /\ UNCHANGED << varsX, varsO, varsM, varsR >>

InitLimiter == RestX /\ InitO /\ RestM /\ InitL({1}) /\ RestR

NextLimiter == Advance \/ CanMakeRequest \/ RecordRequest

SpecLimiter == InitLimiter /\ [][NextLimiter]_vars

\* wait_if_needed, first half of can_make_request: now = time.time(), read
\* before the lock is taken.
WaitReadClock(c) ==
    /\ cpc[c].at = "idle"
    /\ cpc' = [cpc EXCEPT ![c] = Caller("read", now)]
    /\ UNCHANGED << now, requests_log, verdict >>
    /\ UNCHANGED << varsX, varsO, varsM, varsR >>

\* wait_if_needed, second half of can_make_request: the part under the lock.  On
\* True wait_if_needed returns, on False the caller sleeps.
WaitCheck(c) ==
    /\ cpc[c].at = "read"
    /\ LET r == can_make_request(requests_log, cpc[c].t)
       IN  /\ requests_log' = r.log
           /\ verdict' = [verdict EXCEPT ![c] = Returned(r.ok)]
           /\ cpc' = [cpc EXCEPT ![c] =
                        Caller(IF r.ok THEN "cleared" ELSE "sleeping", 0)]
    /\ UNCHANGED now
    /\ UNCHANGED << varsX, varsO, varsM, varsR >>

\* record_request() of a caller whose wait_if_needed() has returned.
RecordAfterWait(c) ==
    /\ cpc[c].at = "cleared"
    /\ Len(requests_log) < MaxLog
    /\ requests_log' = Append(requests_log, now)
    /\ cpc' = [cpc EXCEPT ![c] = Caller("idle", 0)]
    /\ verdict' = NoVerdict
    /\ UNCHANGED now
    /\ UNCHANGED << varsX, varsO, varsM, varsR >>

InitLimiterConc == RestX /\ InitO /\ RestM /\ InitL({1, 2}) /\ RestR

NextLimiterConc ==
    \/ Advance
    \/ \E c \in DOMAIN cpc : WaitReadClock(c)
    \/ \E c \in DOMAIN cpc : WaitCheck(c)
    \/ \E c \in DOMAIN cpc : RecordAfterWait(c)

SpecLimiterConc == InitLimiterConc /\ [][NextLimiterConc]_vars

\* ------------------------------ SpecSave: a save and a load of one checkpoint
\* The file as to_parquet(checkpoint_file) leaves it: the path is opened for
\* writing, the row data is written, and the footer that makes the file readable
\* is written last, when the file is closed.
Bytes(rows, whole) == [exists |-> TRUE, rows |-> rows, whole |-> whole]

\* The checkpoint on disk holds the rows of an earlier save; the run is about to
\* save all_rows, which are those rows and the rows of the pages fetched since.
InitS ==
    /\ \E old \in Tables \ { << >> }, more \in Tables \ { << >> } :
         /\ input = [old |-> old, all_rows |-> old \o more]
         /\ disk = Bytes(old, TRUE)
    /\ wpc = "idle"
    /\ rpc = "off"
    /\ output = << >>

\* pd.DataFrame(all_rows).to_parquet(checkpoint_file): the path is opened and
\* truncated.
SaveOpen ==
    /\ wpc = "idle"
    /\ disk' = Bytes(<< >>, FALSE)
    /\ wpc' = "open"
    /\ UNCHANGED << rpc, varsP >>
    /\ UNCHANGED << varsX, varsO, varsM, varsL >>

\* to_parquet: the row data is written.
SaveWriteRows ==
    /\ wpc = "open"
    /\ disk' = Bytes(input.all_rows, FALSE)
    /\ wpc' = "rows"
    /\ UNCHANGED << rpc, varsP >>
    /\ UNCHANGED << varsX, varsO, varsM, varsL >>

\* to_parquet: the footer is written and the file is closed.
SaveClose ==
    /\ wpc = "rows"
    /\ disk' = Bytes(input.all_rows, TRUE)
    /\ wpc' = "saved"
    /\ UNCHANGED << rpc, varsP >>
    /\ UNCHANGED << varsX, varsO, varsM, varsL >>

\* The process stops in the middle of the save.
Crash ==
    /\ wpc \in {"open", "rows"}
    /\ wpc' = "crashed"
    /\ UNCHANGED << disk, rpc, varsP >>
    /\ UNCHANGED << varsX, varsO, varsM, varsL >>

\* The resume block of a run started by another session or after the crash:
\* read_parquet raises on a file without footer, and the except branch starts
\* from scratch.
LoadCheckpoint ==
    /\ rpc = "off"
    /\ rpc' = IF ~disk.exists THEN "fresh" ELSE IF disk.whole THEN "loaded" ELSE "scratch"
    /\ output' = IF disk.exists /\ disk.whole THEN disk.rows ELSE << >>
    /\ UNCHANGED << disk, wpc, input >>
    /\ UNCHANGED << varsX, varsO, varsM, varsL >>

InitSave == RestX /\ InitO /\ RestM /\ RestL /\ InitS

NextSave == SaveOpen \/ SaveWriteRows \/ SaveClose \/ Crash \/ LoadCheckpoint

SpecSave == InitSave /\ [][NextSave]_vars

\* ------------------------------------- SpecPath: the checkpoint file names
\* A user name is text typed into the form, taken as it is; here a string of up
\* to MaxName pieces.  Strings are sequences of pieces that no text reads in two
\* ways, so two sequences are equal exactly when the texts are.
NamePieces == {"x", "_", "incremental"}
UserNames == UNION { [1..n -> NamePieces] : n \in 1..MaxName }

\* os.path.join("temp_checkpoints", f"{user}_checkpoint.parquet") and
\* os.path.join("temp_checkpoints", f"{user}_incremental_checkpoint.parquet")
checkpoint_file(user, k) ==
    << "temp_checkpoints", "/" >> \o user
      \o (IF k = "full" THEN << "_", "checkpoint", ".parquet" >>
          ELSE << "_", "incremental", "_", "checkpoint", ".parquet" >>)

InitPath ==
    /\ RestX /\ InitO /\ RestM /\ RestL /\ RestS
    /\ input \in { << [user |-> u1, kind |-> k1], [user |-> u2, kind |-> k2] >> :
                     u1 \in UserNames, u2 \in UserNames,
                     k1 \in {"full", "incr"}, k2 \in {"full", "incr"} }
    /\ output = << >>

\* Each of the two extractions computes its checkpoint path.
CheckpointFiles ==
    /\ output = << >>
    /\ output' = [ i \in 1..2 |-> checkpoint_file(input[i].user, input[i].kind) ]
    /\ UNCHANGED << input, varsS >>
    /\ UNCHANGED << varsX, varsO, varsM, varsL >>

NextPath == CheckpointFiles

SpecPath == InitPath /\ [][NextPath]_vars

\* --------------------------- SpecFinal: prepare_final_dataframe on small tables
\* Instants are counted in months since the year 0, so that the calendar
\* columns of the finalizer are computed from them; day, hour, year_month_day
\* and weekday are derived the same way in the code and are left out.
FirstMonth == 24117
MaxMonths == 13
MaxFinalRows == 2

Months == FirstMonth..(FirstMonth + MaxMonths)

\* .dt.year and .dt.month of an instant.
dt_year(t) == t \div 12
dt_month(t) == (t % 12) + 1

DigitChar(d) == << "0", "1", "2", "3", "4", "5", "6", "7", "8", "9" >>[d + 1]

RECURSIVE Digits(_)
Digits(n) == IF n < 10 THEN << DigitChar(n) >>
             ELSE Digits(n \div 10) \o << DigitChar(n % 10) >>

RECURSIVE ZeroPad(_, _)
ZeroPad(s, width) == IF Len(s) >= width THEN s ELSE ZeroPad(<< "0" >> \o s, width)

\* The mutation of strftime_Ym that writes the month without padding.
strftime_Ym_unpadded(t) == ZeroPad(Digits(dt_year(t)), 4) \o << "-" >> \o Digits(dt_month(t))

\* .dt.strftime("%Y-%m"): the year on four digits, a dash, the month on two.
strftime_Ym(t) == ZeroPad(Digits(dt_year(t)), 4) \o << "-" >> \o ZeroPad(Digits(dt_month(t)), 2)

\* A column that the table does not have reads 0 (numbers) or << >> (text).
NoColumns == [year |-> 0, quarter |-> 0, month |-> 0, year_month |-> << >>]

\* The calendar columns the finalizer assigns from datetime_utc.
Columns(t) == [year |-> dt_year(t),
               quarter |-> ((dt_month(t) - 1) \div 3) + 1,
               month |-> dt_month(t),
               year_month |-> strftime_Ym(t)]

\* A row of a table handed to the finalizer: the fields of the page loop and
\* the calendar columns the table already has, which may be those of another
\* instant (a table that was finalized before its datetime_utc was replaced).
FinalRow(t, cols) == [user |-> User, datetime_utc |-> t, artist |-> "a",
                      album |-> "al", track |-> "t", cols |-> cols]

NonDerived(r) == << r.user, r.datetime_utc, r.artist, r.album, r.track >>

\* pd.to_datetime on the column: the rows hold timezone-aware datetimes
\* (datetime.fromtimestamp(int(uts), tz=timezone.utc)), so the column is
\* already datetime64[ns, UTC] and the instants are kept.
to_datetime(t) == t

\* prepare_final_dataframe with its columns: an empty table is returned as it
\* is; otherwise every calendar column is assigned anew from datetime_utc.
df_final(df) ==
    IF df.rows = << >> THEN df
    ELSE DataFrame([ i \in 1..Len(df.rows) |->
                       [ df.rows[i] EXCEPT !.datetime_utc = to_datetime(@),
                                           !.cols = Columns(to_datetime(df.rows[i].datetime_utc)) ] ],
                   TRUE)

FinalRows == { FinalRow(t, c) : t \in Months,
               c \in {NoColumns} \cup { Columns(s) : s \in {FirstMonth, FirstMonth + MaxMonths} } }

InitFinal ==
    /\ RestX /\ InitO /\ RestM /\ RestL /\ RestS
    /\ input \in { DataFrame(rows, rows # << >> /\ \A i \in DOMAIN rows : rows[i].cols # NoColumns) :
                     rows \in UNION { [1..n -> FinalRows] : n \in 0..MaxFinalRows } }
    /\ output = << >>

\* The caller finalizes a table.
PrepareFinal ==
    /\ output = << >>
    /\ output' = << df_final(input) >>
    /\ UNCHANGED << input, varsS >>
    /\ UNCHANGED << varsX, varsO, varsM, varsL >>

\* The result is finalized once more (a cached table merged on a later call).
PrepareFinalAgain ==
    /\ Len(output) = 1
    /\ output' = Append(output, df_final(output[1]))
    /\ UNCHANGED << input, varsS >>
    /\ UNCHANGED << varsX, varsO, varsM, varsL >>

NextFinal == PrepareFinal \/ PrepareFinalAgain

SpecFinal == InitFinal /\ [][NextFinal]_vars

\* ------------------------------ SpecLive: the runs with the limiter and the clock
\* The instants of the log are kept relative to the present reading of the
\* clock: now stays 0 and the entries move into the past.  can_make_request
\* tells an entry's age only by the window it falls in, so an entry is kept at
\* the youngest age of its window: just recorded, one second old, one minute
\* old, more than one hour old.
Past == {0, 0 - SecondWindow, 0 - MinuteWindow, 0 - (HourWindow + 1)}

\* The logs that time turns log into: no entry gets younger and the entries
\* stay in the order they were recorded in.
Older(log) ==
    { l \in [1..Len(log) -> Past] :
        /\ \A i \in 1..Len(log) : l[i] <= log[i]
        /\ \A i, j \in 1..Len(log) : i < j => l[i] <= l[j] }

\* The service holds MaxPages full pages; an earlier call may have left the
\* checkpoint of one kind, holding the rows of the first page.
InitLive ==
    /\ svc = [total |-> MaxPages, last |-> PageSize,
              bad |-> [slot |-> << 0, 0 >>, kind |-> "ok"]]
    /\ files \in { [k \in {"full", "incr"} |->
                      IF k = c /\ n > 0 THEN File(RowsOfPages(svc, 1, n)) ELSE NoFile] :
                    c \in {"full", "incr"}, n \in 0..1 }
    /\ InitRun
    /\ InitO /\ RestM /\ InitL({1}) /\ RestR

\* rate_limiter = SmartRateLimiter() at the head of each fetch function: a call
\* starts with an empty log.
NewLimiter ==
    /\ now' = 0
    /\ requests_log' = << >>
    /\ cpc' = [c \in {1} |-> Caller("idle", 0)]
    /\ verdict' = [c \in {1} |-> "none"]

LiveLoadUserData ==
    pc = "idle" /\ LoadUserDataCall /\ NewLimiter /\ UNCHANGED << varsO, varsM, varsR >>

LiveLoadUserDataIncremental ==
    pc = "idle" /\ LoadUserDataIncrementalCall /\ NewLimiter /\ UNCHANGED << varsO, varsM, varsR >>

\* wait_if_needed(): can_make_request() returns True and the pass of the page
\* loop goes on to its retry loop.
WaitEnter ==
    /\ LET r == can_make_request(requests_log, now)
       IN  /\ r.ok
           /\ requests_log' = r.log
    /\ EnterPageCore
    /\ cpc' = [cpc EXCEPT ![1] = Caller("cleared", 0)]
    /\ verdict' = [verdict EXCEPT ![1] = Returned(TRUE)]
    /\ UNCHANGED now

\* wait_if_needed(): can_make_request() returns False and the caller sleeps
\* 0.3 s, during which the entries of the log age.
WaitSleep ==
    /\ pc = "loop"
    /\ LoopCondition
    /\ LET r == can_make_request(requests_log, now)
       IN  /\ ~r.ok
           /\ requests_log' \in Older(r.log)
    /\ cpc' = [cpc EXCEPT ![1] = Caller("sleeping", 0)]
    /\ verdict' = [verdict EXCEPT ![1] = Returned(FALSE)]
    /\ UNCHANGED << now, varsX, varsO, varsM, varsR >>

\* One pass of the retry loop: record_request() appends the present instant,
\* then the request is made and answered.
RequestRecorded ==
    /\ requests_log' = Append(requests_log, now)
    /\ RequestCore
    /\ cpc' = [cpc EXCEPT ![1] = Caller("idle", 0)]
    /\ UNCHANGED << now, verdict >>

\* Time passes while a request is under way or the retry loop sleeps after an
\* error (time.sleep of l.186-238).
Elapse ==
    /\ pc = "retry"
    /\ requests_log' \in Older(requests_log) \ {requests_log}
    /\ UNCHANGED << now, cpc, verdict, varsX, varsO, varsM, varsR >>

\* The steps of the thread that runs the call.
CallStep ==
    \/ WaitEnter
    \/ WaitSleep
    \/ RequestRecorded
    \/ PageFailedSkip
    \/ PageFailedPause
    \/ ProcessPageFull
    \/ ProcessPageIncr
    \/ FinalizeFull
    \/ FinalizeIncr

NextLive ==
    \/ LiveLoadUserData
    \/ LiveLoadUserDataIncremental
    \/ WaitEnter
    \/ WaitSleep
    \/ RequestRecorded
    \/ Elapse
    \/ PageFailedSkip
    \/ PageFailedPause
    \/ ProcessPageFull
    \/ ProcessPageIncr
    \/ FinalizeFull
    \/ FinalizeIncr

\* The thread of a call keeps running, and a sleep of wait_if_needed ends with
\* the clock further on: a step of the call that stays possible is taken.
SpecLive == InitLive /\ [][NextLive]_vars /\ WF_vars(CallStep)

\* ------------------------- SpecLong: one extraction of a longer history
\* One call, full or incremental, for a user whose history has LongPages full
\* pages, so that the periodic checkpoint comes round several times.
LongPages == 6

InitLong ==
    /\ svc = [total |-> LongPages, last |-> PageSize,
              bad |-> [slot |-> << 0, 0 >>, kind |-> "ok"]]
    /\ files = [k \in {"full", "incr"} |-> NoFile]
    /\ InitRun
    /\ InitO /\ RestM /\ RestL /\ RestR

\* The first call of the session.
FirstCall ==
    /\ pc = "idle"
    /\ first_page = 0
    /\ LoadUserData \/ LoadUserDataIncremental

NextLong ==
    \/ FirstCall
    \/ EnterPage
    \/ Request
    \/ PageFailedSkip
    \/ PageFailedPause
    \/ ProcessPageFull
    \/ ProcessPageIncr
    \/ FinalizeFull
    \/ FinalizeIncr
    \/ Interrupt

SpecLong == InitLong /\ [][NextLong]_vars

\* ------------------------------- SpecKey: the texts that carry the API key
\* A text is the sequence of its pieces. input is the key read from
\* secrets.toml, the page, the attempt and the answer to the request; output is
\* what the retry loop logged or what estimate_extraction_time_smart returned.
ApiKeys == {"key1", "key2"}

Contains(text, piece) == \E i \in 1..Len(text) : text[i] = piece

\* The URL of a request: host, then path and query, which holds the key.
url(user, api_key, p) ==
    << "http://ws.audioscrobbler.com",
       "/2.0/?method=user.getrecenttracks&user=", user, "&api_key=", api_key,
       "&limit=200&page=", ToString(p), "&format=json" >>

\* str(e) of the exception a response ends in. raise_for_status() names the URL
\* of the request in the HTTPError it raises; a failed connection names path and
\* query; a read timeout names the host only; the ValueErrors raised for an API
\* error carry the service's message.
StrOfException(resp, user, api_key, p) ==
    CASE resp \in {"http_error", "http429", "http503"} ->
           << "403 Client Error: Forbidden for url: " >> \o url(user, api_key, p)
      [] resp = "connection_error" ->
           << "HTTPConnectionPool(host='ws.audioscrobbler.com', port=80): ",
              "Max retries exceeded with url: " >> \o Tail(url(user, api_key, p))
      [] resp = "timeout" ->
           << "HTTPConnectionPool(host='ws.audioscrobbler.com', port=80): ",
              "Read timed out." >>
      [] resp = "api17" -> << "API Key suspended: ", "message" >>
      [] resp = "api6" -> << "User not found: ", user >>
      [] resp \in {"api29", "api_other"} -> << "API Error ", "code", ": ", "message" >>
      [] OTHER -> << >>

\* What the retry loop of the extraction writes to extraction_logger for one
\* answer: 429, 503, API error 29, timeouts and connection errors are logged
\* with the page and the attempt; every other exception is logged with str(e).
RetryLoopLog(resp, user, api_key, p, a) ==
    CASE resp = "http429" ->
           << "Rate limit exceeded in page ", ToString(p), ". Waiting ", "30",
              " seconds..." >>
      [] resp = "http503" ->
           << "Service unavailable in page ", ToString(p), ". Waiting..." >>
      [] resp = "api29" ->
           << "API Rate limit in page ", ToString(p), ". Waiting 60 seconds..." >>
      [] resp = "timeout" ->
           << "Timeout in page ", ToString(p), ", attempt ", ToString(a), "/",
              ToString(max_retries) >>
      [] resp = "connection_error" ->
           << "Connection error in page ", ToString(p), ", attempt ", ToString(a),
              "/", ToString(max_retries) >>
      [] resp \in {"http_error", "api6", "api17", "api_other"} ->
           << "Error in page: ", ToString(p), ", attempt: ", ToString(a), "/",
              ToString(max_retries), ": " >> \o StrOfException(resp, user, api_key, p)
      [] OTHER -> << >>

\* The "error" entry of the dict estimate_extraction_time_smart returns: the
\* service's message for an API error, str(e) for every exception; none for a
\* page.
EstimateError(resp, user, api_key) ==
    CASE resp = "ok" -> << >>
      [] resp \in {"api6", "api17", "api29", "api_other"} -> << "API Error: ", "message" >>
      [] OTHER -> StrOfException(resp, user, api_key, 1)

NoOutput == [logged |-> << >>, returned |-> << >>, by |-> "none"]

InitKey ==
    /\ RestX /\ InitO /\ RestM /\ RestL /\ RestS
    /\ input \in [api_key : ApiKeys, page : 1..MaxPages, attempt : 1..max_retries,
                  resp : Responses]
    /\ output = NoOutput

\* One attempt of the retry loop has been answered.
RetryLoopLogs ==
    /\ output.by = "none"
    /\ output' = [logged |-> RetryLoopLog(input.resp, User, input.api_key,
                                          input.page, input.attempt),
                  returned |-> << >>, by |-> "extraction"]
    /\ UNCHANGED << input, varsX, varsO, varsM, varsL, varsS >>

\* estimate_extraction_time_smart(user) has returned.
EstimateReturns ==
    /\ output.by = "none"
    /\ input.page = 1
    /\ input.attempt = 1
    /\ output' = [logged |-> << >>,
                  returned |-> EstimateError(input.resp, User, input.api_key),
                  by |-> "estimate"]
    /\ UNCHANGED << input, varsX, varsO, varsM, varsL, varsS >>

NextKey == RetryLoopLogs \/ EstimateReturns

SpecKey == InitKey /\ [][NextKey]_vars

\* ------------- SpecSessions: two sessions extract for the same user and kind
\* Each browser session runs the form-submit handler in a thread of its own;
\* loading_data lives in the session's own st.session_state. cpc[c] is the
\* position and the locals of the full extraction that session c runs for the
\* one user; files["full"] is that user's checkpoint file, shared by both.
Sessions == {1, 2}

SessionIdle == [at |-> "idle", page |-> 1, start_page |-> 1, total_pages |-> 1,
                all_rows |-> << >>]

InitSessions ==
    /\ svc \in { s \in Services : ServiceOk(s) /\ s.bad.kind = "ok" /\ s.last >= 1 }
    /\ files = [k \in {"full", "incr"} |-> NoFile]
    /\ InitRun
    /\ InitO /\ RestM /\ RestR
    /\ now = 0 /\ requests_log = << >> /\ verdict = << >>
    /\ cpc = [c \in Sessions |-> SessionIdle]

\* What no step of a session changes.
SessionFrame ==
    UNCHANGED << varsEnv, cache, pc, varsCall, varsLocal, varsSeen, varsResult,
                 varsO, varsM, now, requests_log, verdict, varsR >>

\* The form is submitted in session c: no test of another session's run is
\* made; load_user_data finds no cached table and the extraction starts, from
\* the checkpoint when the file exists.
SessionSubmit(c) ==
    /\ cpc[c].at \in {"idle", "done"}
    /\ LET have == files["full"].exists
           rows == IF have THEN files["full"].rows ELSE << >>
           first == IF have THEN (Len(rows) \div PageSize) + 1 ELSE 1
       IN  cpc' = [cpc EXCEPT ![c] = [at |-> "loop", page |-> first,
                                      start_page |-> first, total_pages |-> 1,
                                      all_rows |-> rows]]
    /\ UNCHANGED files
    /\ SessionFrame

\* Session c fetches its page: the rows are appended and every
\* CheckpointEvery-th page writes the checkpoint file.
SessionPage(c) ==
    /\ cpc[c].at = "loop"
    /\ cpc[c].page <= cpc[c].total_pages
    /\ LET rows == cpc[c].all_rows \o ParseTracks(PageTracks(svc, cpc[c].page))
       IN  /\ cpc' = [cpc EXCEPT ![c].all_rows = rows,
                                 ![c].total_pages =
                                    IF cpc[c].page = cpc[c].start_page
                                    THEN svc.total ELSE @,
                                 ![c].page = @ + 1]
           /\ files' = IF cpc[c].page % CheckpointEvery = 0 /\ rows # << >>
                       THEN [files EXCEPT !["full"] = File(rows)] ELSE files
    /\ SessionFrame

\* Session c meets the consecutive-error ceiling: it writes the checkpoint and
\* returns.
SessionPause(c) ==
    /\ cpc[c].at = "loop"
    /\ cpc[c].page <= cpc[c].total_pages
    /\ files' = IF cpc[c].all_rows # << >>
                THEN [files EXCEPT !["full"] = File(cpc[c].all_rows)] ELSE files
    /\ cpc' = [cpc EXCEPT ![c] = [SessionIdle EXCEPT !.at = "done"]]
    /\ SessionFrame

\* Session c leaves the page loop: it removes the checkpoint file and returns.
SessionFinalize(c) ==
    /\ cpc[c].at = "loop"
    /\ cpc[c].page > cpc[c].total_pages
    /\ files' = [files EXCEPT !["full"] = NoFile]
    /\ cpc' = [cpc EXCEPT ![c] = [SessionIdle EXCEPT !.at = "done"]]
    /\ SessionFrame

NextSessions ==
    \E c \in Sessions :
       SessionSubmit(c) \/ SessionPage(c) \/ SessionPause(c) \/ SessionFinalize(c)

SpecSessions == InitSessions /\ [][NextSessions]_vars

\* ================================================================== claims
NoDuplicates3(rows) ==
    \A i, j \in 1..Len(rows) : Key3(rows[i]) = Key3(rows[j]) => i = j

NoDuplicates4(rows) ==
    \A i, j \in 1..Len(rows) : Key4(rows[i]) = Key4(rows[j]) => i = j

ThreeOutcomes == {"COMPLETE", "INCOMPLETE_PAUSED", "FAILED"}

\* C1: two calls that ended in different ones of the three outcomes COMPLETE,
\* INCOMPLETE_PAUSED and FAILED returned different values to the caller.
C1_OutcomesDistinguishable ==
    ( /\ pc = "done"
      /\ ClaimOutcome \in ThreeOutcomes
      /\ prevOutcome \in ThreeOutcomes
      /\ prevOutcome # ClaimOutcome )
    => prevRet # ret

\* C2: once the service has answered a request of the call with API error 6 or
\* 17, the call sends no further request, and when it returns it has FAILED.
C2_FatalAborts ==
    [][ (fatalSeen /\ pc \in {"loop", "retry", "finalize"})
        => /\ page_requests' # page_requests + 1
           /\ pc' = "done" => outcome' = "FAILED" ]_vars

\* C3: a full extraction that resumed from a checkpoint and ran to completion
\* returned every checkpointed row and, as a set, exactly the rows a from-scratch
\* extraction of the unchanged service returns.
C3_ResumeEqualsFresh ==
    ( /\ pc = "done"
      /\ kind = "full"
      /\ loaded.resumed
      /\ outcome = "COMPLETE" )
    => /\ Range(loaded.rows) \subseteq Range(ret.rows)
       /\ Range(ret.rows) = Range(RowsOfPages(svc, 1, svc.total))

\* C4: a call that resumed from a checkpoint of k rows starts its page loop with
\* exactly those rows accumulated, and the first page it requests is
\* floor(k / PageSize) + 1.
C4_ResumeStartPage ==
    /\ ( pc = "loop" /\ loaded.resumed /\ pages_fetched = << >> /\ consecutive_errors = 0 )
       => all_rows = loaded.rows
    /\ ( pc = "done" /\ loaded.resumed /\ outcome \in {"COMPLETE", "INCOMPLETE_PAUSED"} )
       => first_page = (Len(loaded.rows) \div PageSize) + 1

\* C6: the table a full extraction returns and caches after it resumed from a
\* checkpoint and fetched the partially drained page again holds no two rows with
\* the same (user, timestamp, artist, track).
C6_ResumedTableNoDuplicates ==
    ( /\ pc = "done"
      /\ kind = "full"
      /\ loaded.resumed
      /\ pages_fetched # << >> )
    => /\ NoDuplicates4(ret.rows)
       /\ NoDuplicates4(cache.rows)

\* C8: every row fetch_user_data_incremental returns is newer than from_timestamp.
C8_IncrementalBoundary ==
    ( pc = "done" /\ kind = "incr" )
    => \A i \in 1..Len(fetched.rows) : fetched.rows[i].datetime_utc > from_timestamp

\* Two tables hold the same rows, each as many times.
SameRows(a, b) ==
    /\ Len(a) = Len(b)
    /\ \A r \in Range(a) \cup Range(b) :
         Cardinality({ i \in 1..Len(a) : a[i] = r })
           = Cardinality({ i \in 1..Len(b) : b[i] = r })

\* C5: the table load_user_data_incremental returns, whether the fetch found new
\* rows, found none or raised, holds no two rows with the same
\* (datetime_utc, artist, track).
C5_MergedNoDuplicates ==
    mpc \in {"merged", "again"} => NoDuplicates3(merged.rows)

\* C7: merging the existing table with the result of a merge returns the rows of
\* that result again.
C7_MergeIdempotent ==
    mpc = "again" => SameRows(merged_again.rows, merged.rows)

\* Entries of the log younger than w now.
Younger(w) == Recent(requests_log, now, w)

\* For each entry of the log, the number of entries within the window of length w
\* that opens at it.
InWindow(w) ==
    { Cardinality({ j \in 1..Len(requests_log) :
                      /\ requests_log[j] >= requests_log[i]
                      /\ requests_log[j] - requests_log[i] < w })
        : i \in 1..Len(requests_log) }

\* C9: for a single caller, can_make_request() returns True only when the log
\* holds fewer than max_per_second entries younger than 1 s, fewer than
\* max_per_minute younger than 60 s and fewer than max_per_hour younger than 1 h;
\* it returns False when max_per_second or more requests were recorded within the
\* running second, and True once every entry is older than one hour.
C9_LimiterSingleCaller ==
    /\ verdict[1] = "True" =>
         /\ Younger(SecondWindow) < max_per_second
         /\ Younger(MinuteWindow) < max_per_minute
         /\ Younger(HourWindow) < max_per_hour
    /\ ( verdict[1] # "none" /\ Younger(SecondWindow) >= max_per_second )
         => verdict[1] = "False"
    /\ ( verdict[1] # "none"
         /\ \A i \in 1..Len(requests_log) : now - requests_log[i] > HourWindow )
         => verdict[1] = "True"

\* can_make_request() has just refused the single caller, who recorded
\* max_per_second requests within the running second, a minute or more after its
\* first request.
C9_Witness ==
    /\ DOMAIN cpc = {1}
    /\ verdict[1] = "False"
    /\ Younger(SecondWindow) >= max_per_second
    /\ Younger(MinuteWindow) < Len(requests_log)

\* C10: with two callers that each call wait_if_needed() and then
\* record_request(), the log never holds more than max_per_second entries within
\* one second, max_per_minute within one minute or max_per_hour within one hour.
C10_ConcurrentCeilings ==
    /\ \A n \in InWindow(SecondWindow) : n <= max_per_second
    /\ \A n \in InWindow(MinuteWindow) : n <= max_per_minute
    /\ \A n \in InWindow(HourWindow) : n <= max_per_hour

\* The entries of the user's history that carry a completed, well-formed date.
CompletedEntries(s) ==
    { e \in (1..s.total) \X (1..PageSize) :
        e[2] <= EntriesOn(s, e[1]) /\ EntryKind(s, e[1], e[2]) = "ok" }

\* A call of the full extraction that found no cached table and no checkpoint
\* and whose every request was answered with a page.
FreshCleanFull == kind = "full" /\ ~loaded.resumed /\ resume /\ ~errorSeen

\* C11: a fresh full extraction in which every page succeeds sends one request
\* per page, fetches the pages 1..total_pages once each in order, returns exactly
\* the rows of their completed entries, finalized, and leaves no checkpoint file.
C11_FreshExtractionComplete ==
    /\ ( FreshCleanFull /\ pc = "retry" ) => page_requests <= 1
    /\ ( FreshCleanFull /\ pc = "done" /\ fetched # None ) =>
         /\ outcome = "COMPLETE"
         /\ pages_fetched = [ p \in 1..svc.total |-> p ]
         /\ Len(ret.rows) = Cardinality(CompletedEntries(svc))
         /\ Range(ret.rows) = { Row(Uts(svc, e[1], e[2])) : e \in CompletedEntries(svc) }
         /\ ret.rows # << >> => ret.final
         /\ ~files["full"].exists

\* A fresh full extraction of a history of MaxPages pages with an unfinished last
\* page and a now-playing entry has returned.
C11_Witness ==
    /\ FreshCleanFull
    /\ pc = "done"
    /\ fetched # None
    /\ svc.total = MaxPages
    /\ svc.last < PageSize
    /\ svc.bad.kind = "now_playing"
    /\ Len(ret.rows) = TotalScrobbles(svc) - 1

\* C12: the step that returns at the consecutive-error ceiling sends no request
\* and leaves the user's checkpoint file holding exactly the rows accumulated,
\* which are the rows it returns; the file stays as it is while no call runs; and
\* a call of the same kind that resumes next starts with those rows accumulated,
\* at the page computed from their number.
C12_PauseCheckpoints ==
    [][ /\ ( pc # "done" /\ pc' = "done" /\ outcome' = "INCOMPLETE_PAUSED" )
           => /\ consecutive_errors + 1 >= max_consecutive_errors
              /\ files'[kind] = [exists |-> TRUE, rows |-> all_rows]
              /\ fetched'.rows = all_rows
              /\ first_page' = first_page
        /\ ( pc = "done" /\ outcome = "INCOMPLETE_PAUSED" /\ pc' = "done" )
           => files' = files
        /\ ( /\ pc = "done" /\ outcome = "INCOMPLETE_PAUSED"
             /\ pc' = "loop" /\ kind' = kind /\ resume' )
           => /\ loaded'.resumed
              /\ loaded'.rows = fetched.rows
              /\ all_rows' = fetched.rows
              /\ start_page' = (Len(fetched.rows) \div PageSize) + 1
              /\ page' = start_page' ]_vars

\* A call that loaded a checkpoint has itself returned at the consecutive-error
\* ceiling, with a page or more of rows in the checkpoint file.
C12_Witness ==
    /\ pc = "done"
    /\ outcome = "INCOMPLETE_PAUSED"
    /\ loaded.resumed
    /\ files[kind].exists
    /\ files[kind].rows = fetched.rows
    /\ Len(fetched.rows) >= PageSize

\* C13: in a call that found a checkpoint on disk, from the fatal answer on no
\* step changes or removes the checkpoint file of its kind.
C13_FatalKeepsCheckpoint ==
    [][ ( /\ fatalSeen /\ loaded.resumed
          /\ pc \in {"loop", "retry", "finalize"}
          /\ files[kind].exists )
        => files'[kind] = files[kind] ]_vars

\* C14: a load of the checkpoint file, at any point of a save or after a crash in
\* the middle of one, yields the rows of the earlier save or the rows of this one.
C14_SaveAtomic ==
    rpc # "off" => /\ rpc = "loaded"
                   /\ output \in {input.old, input.all_rows}

\* C15: two extractions that differ in the user name or in the kind use different
\* checkpoint paths.
C15_PathsDistinct ==
    ( output # << >> /\ input[1] # input[2] ) => output[1] # output[2]


\* C16: prepare_final_dataframe is idempotent and consistent: finalizing the
\* result again gives the same table; the result has as many rows as the input
\* and the same non-derived fields; in every finalized row year_month is the
\* year, a dash and the two-digit month, and quarter is (month - 1) div 3 + 1,
\* a value in 1..4.
C16_FinalizeIdempotent ==
    /\ Len(output) >= 1 =>
         /\ Len(output[1].rows) = Len(input.rows)
         /\ \A i \in 1..Len(input.rows) :
              /\ NonDerived(output[1].rows[i]) = NonDerived(input.rows[i])
              /\ output[1].rows[i].cols.year_month =
                   Digits(output[1].rows[i].cols.year) \o << "-" >>
                     \o ZeroPad(Digits(output[1].rows[i].cols.month), 2)
              /\ output[1].rows[i].cols.quarter =
                   ((output[1].rows[i].cols.month - 1) \div 3) + 1
              /\ output[1].rows[i].cols.quarter \in 1..4
    /\ Len(output) = 2 => output[2] = output[1]

C16_Witness ==
    /\ Len(output) = 2
    /\ Len(input.rows) = MaxFinalRows
    /\ input.rows[1].cols = NoColumns
    /\ input.rows[2].cols # NoColumns
    /\ input.rows[2].cols # Columns(input.rows[2].datetime_utc)
    /\ dt_month(input.rows[1].datetime_utc) < 10
    /\ dt_month(input.rows[2].datetime_utc) >= 10
    /\ dt_year(input.rows[1].datetime_utc) # dt_year(input.rows[2].datetime_utc)


\* C17: every call of the full or the incremental extraction eventually
\* returns, whatever the service answers, given that time advances: no wait of
\* the rate limiter, no retry loop and no page loop runs forever.
C17_EveryCallReturns == (pc \in {"loop", "retry", "finalize"}) ~> (pc = "done")

C17_Witness ==
    /\ pc = "loop"
    /\ verdict[1] = "False"
    /\ cpc[1].at = "sleeping"
    /\ page = MaxPages
    /\ errorSeen
    /\ Len(requests_log) >= max_per_hour


\* C18: every table stored in the cache by load_user_data or
\* load_user_data_incremental is the finalized, duplicate-free result of an
\* extraction that reached COMPLETE; a call that paused at the ceiling of
\* consecutive errors or failed leaves the cache as it was.
C18_CacheOnlyComplete ==
    [][ /\ ( cache' # cache /\ cache' # None ) =>
             /\ outcome' = "COMPLETE"
             /\ cache'.final
             /\ NoDuplicates4(cache'.rows)
        /\ ( pc # "done" /\ pc' = "done" /\ outcome' \in {"INCOMPLETE_PAUSED", "FAILED"} ) =>
             cache' = cache ]_vars


\* C19: a page is requested at most max_retries times; when every attempt of a
\* page has failed, nothing is raised out of the call: the page loop takes the
\* failure and adds exactly one to consecutive_errors for that page (going on,
\* or returning the rows when the ceiling is reached); a successful request
\* sets consecutive_errors to 0.
C19_RetriesAndCounter ==
    [][ /\ page_requests' <= max_retries
        /\ ( pc = "retry" /\ pc' = "retry" /\ ~success' ) =>
             consecutive_errors' = consecutive_errors
        /\ ( pc = "retry" /\ ~success /\ success' ) => consecutive_errors' = 0
        /\ ( pc = "retry" /\ ~success /\ pc' \in {"loop", "done"} ) =>
             /\ page_requests = max_retries
             /\ \/ /\ pc' = "loop"
                   /\ consecutive_errors' = consecutive_errors + 1
                   /\ consecutive_errors' < max_consecutive_errors
                \/ /\ pc' = "done"
                   /\ consecutive_errors + 1 = max_consecutive_errors
                   /\ outcome' = "INCOMPLETE_PAUSED"
                   /\ fetched' # None ]_vars

C19_Witness ==
    /\ pc = "retry"
    /\ success
    /\ consecutive_errors = 0
    /\ page_requests = max_retries
    /\ page >= 3
    /\ Len(pages_fetched) = 1
    /\ ~fatalSeen


\* C20: when the retries of page p are used up below the ceiling of
\* consecutive errors, the extraction skips p and goes on: the page becomes
\* p + 1 and, while the user's history has a page p + 1, the page loop continues
\* with it; this holds when p is the first page of the run as well.
C20_SkipContinues ==
    [][ ( /\ ~loaded.resumed
          /\ pc = "retry" /\ ~success /\ attempt > max_retries
          /\ consecutive_errors + 1 < max_consecutive_errors
          /\ pc' = "loop" )
        => /\ page' = page + 1
           /\ ( page' <= svc.total /\ (kind = "incr" => ~reached_existing_data) )
                => LoopCondition' ]_vars


\* The position in a page of the first entry with a completed date at or before
\* T, or 0 when the page has none.
Boundary(tracks, T) ==
    LET at == { i \in 1..Len(tracks) : tracks[i].kind = "ok" /\ tracks[i].uts <= T }
    IN  IF at = {} THEN 0 ELSE CHOOSE i \in at : \A j \in at : i <= j

\* The rows of the entries with a completed date among the first n of a page.
RowsBefore(tracks, n) == ParseTracks(SubSeq(tracks, 1, n))

\* C21: in an incremental extraction, when a page holds a row with timestamp
\* <= from_timestamp, the rows before it are appended, that row and all rows
\* after it are discarded, and the call returns without appending another row
\* or requesting another page.
C21_StopsAtExistingData ==
    [][ /\ ( /\ kind = "incr" /\ pc = "retry" /\ success /\ pc' # "idle"
             /\ ~TrackLoopRaises
             /\ Boundary(PageTracks(svc, page), from_timestamp) > 0 )
           => /\ all_rows' = all_rows \o RowsBefore(PageTracks(svc, page),
                                Boundary(PageTracks(svc, page), from_timestamp) - 1)
              /\ reached_existing_data'
              /\ pc' = "finalize"
              /\ page' = page
              /\ page_requests' = page_requests
        /\ ( reached_existing_data /\ pc' # "idle" )
           => /\ pc = "finalize"
              /\ pc' = "done"
              /\ Len(fetched'.rows) = Len(all_rows)
              /\ Range(fetched'.rows) = Range(all_rows)
              /\ first_page' = first_page
              /\ pages_fetched' = pages_fetched ]_vars

C21_Witness ==
    /\ kind = "incr"
    /\ pc = "finalize"
    /\ reached_existing_data
    /\ page >= 2
    /\ EntriesOn(svc, page) = PageSize
    /\ Boundary(PageTracks(svc, page), from_timestamp) = 1
    /\ all_rows # << >>
    /\ ~loaded.resumed


\* The pages this call has fetched whose rows are not all in the checkpoint file
\* of the call's kind.
MissingPages ==
    { i \in 1..Len(pages_fetched) :
        LET got == IF kind = "incr"
                   THEN ParseTracksSince(PageTracks(svc, pages_fetched[i]), from_timestamp).rows
                   ELSE ParseTracks(PageTracks(svc, pages_fetched[i]))
        IN  ~ ( Range(got) \subseteq Range(files[kind].rows) ) }

\* C22: between two pages of a running extraction the rows of at most
\* CheckpointEvery (50) fetched pages are missing from the checkpoint on disk,
\* whatever pages succeeded and whatever pages were skipped.
C22_CheckpointLag ==
    ( pc = "loop" /\ LoopCondition ) => Cardinality(MissingPages) <= CheckpointEvery


\* C23: the progress callback is invoked exactly once for every page the call
\* has fetched, in the full and in the incremental extraction, with that page's
\* number, the total page count and the number of rows accumulated so far; the
\* reported page numbers strictly increase and the reported row counts never
\* decrease.
C23_ProgressPerPage ==
    /\ Len(progress_calls) = Len(pages_fetched)
    /\ \A i \in 1..Len(progress_calls) :
         /\ progress_calls[i].current_page = pages_fetched[i]
         /\ progress_calls[i].total_pages = svc.total
    /\ pc \in {"loop", "finalize"} /\ progress_calls # << >> =>
         progress_calls[Len(progress_calls)].total_scrobbles = Len(all_rows)
    /\ \A i, j \in 1..Len(progress_calls) : i < j =>
         /\ progress_calls[i].current_page < progress_calls[j].current_page
         /\ progress_calls[i].total_scrobbles <= progress_calls[j].total_scrobbles


\* A step that sends a request.
RequestStep == pc = "retry" /\ page_requests' = page_requests + 1

\* A step of a running call appends to all_rows rows of the current page only,
\* in the order of the page, and leaves the rows it had in place.
AppendOnly ==
    ( pc \in {"loop", "retry", "finalize"} /\ pc' \in {"loop", "retry", "finalize"} )
    => \E n \in 0..Len(PageTracks(svc, page)) :
         all_rows' = all_rows \o RowsBefore(PageTracks(svc, page), n)

\* C24 as stated: within one call pages are requested in strictly increasing
\* order in a full extraction and in strictly decreasing order in an
\* incremental extraction, a page number being repeated only by the retries of
\* that page, and all_rows changes only by appending rows in the order the
\* service returned them.
C24_OrderAsStated ==
    [][ /\ ( RequestStep /\ last_requested # 0 ) =>
             IF page = last_requested THEN page_requests > 0
             ELSE IF kind = "full" THEN page > last_requested
             ELSE page < last_requested
        /\ AppendOnly ]_vars

\* C24, amended: within one call pages are requested in strictly increasing
\* order in the full and in the incremental extraction alike, a page number
\* being repeated only by the retries of that page, and all_rows changes only by
\* appending rows in the order the service returned them.
C24_PagesIncrease ==
    [][ /\ ( RequestStep /\ last_requested # 0 ) =>
             IF page = last_requested THEN page_requests > 0
             ELSE page > last_requested
        /\ AppendOnly ]_vars

C24_Witness ==
    /\ kind = "incr"
    /\ pc = "retry"
    /\ page = 3
    /\ last_requested = 3
    /\ page_requests = max_retries
    /\ pages_fetched = << 1 >>
    /\ all_rows # << >>


\* The page just fetched holds an entry without a completed date or with a
\* malformed one.
AnomalyOnPage ==
    \E i \in 1..EntriesOn(svc, page) : EntryKind(svc, page, i) # "ok"

\* C25: an entry with no completed timestamp or a malformed timestamp is dropped
\* without effect: the step that processes its page raises no error and counts
\* the page as fetched, leaves the attempt and consecutive-error counters as
\* they are, and appends every other entry of the page (in the incremental
\* extraction: every other entry before the first one at or before
\* from_timestamp).
C25_AnomaliesDropped ==
    [][ ( pc = "retry" /\ success /\ pc' # "idle" /\ AnomalyOnPage )
        => /\ pc' \in {"loop", "finalize"}
           /\ pages_fetched' = Append(pages_fetched, page)
           /\ attempt' = attempt
           /\ consecutive_errors' = consecutive_errors
           /\ page_requests' = page_requests
           /\ LET tracks == PageTracks(svc, page)
                  b == Boundary(tracks, from_timestamp)
              IN  all_rows' = all_rows \o
                    ( IF kind = "full" \/ b = 0 THEN ParseTracks(tracks)
                      ELSE RowsBefore(tracks, b - 1) ) ]_vars



\* C26: a call of load_user_data or load_user_data_incremental loads a
\* checkpoint and starts from the resume page only when the caller passed
\* resume = true; with resume = false it starts at page 1 with an empty
\* accumulator, whether or not a checkpoint file exists.
C26_ResumeOnlyWhenAsked ==
    pc \in {"loop", "retry", "finalize"} =>
      /\ loaded.resumed => resume_arg
      /\ ~resume_arg => ( start_page = 1 /\ loaded.rows = << >> )



\* C27: every request, each retry attempt of a page included, is sent only after
\* the rate limiter granted clearance for it, that is after can_make_request()
\* returned True later than the previous request was recorded, and the step
\* that sends it appends exactly one entry to the limiter's log.
C27_ClearedBeforeSent ==
    [][ RequestStep =>
          /\ cpc[1].at = "cleared"
          /\ verdict[1] = Returned(TRUE)
          /\ requests_log' = Append(requests_log, now) ]_vars



\* C28: the API key is a piece of nothing the extraction core logs and of
\* nothing it returns to its caller, whatever a request was answered with, HTTP
\* errors whose message is logged included.
C28_KeyNeverLeaves ==
    /\ ~Contains(output.logged, input.api_key)
    /\ ~Contains(output.returned, input.api_key)



\* The (datetime_utc, artist, track) keys of a table.
KeysOf(rows) == { Key3(rows[i]) : i \in 1..Len(rows) }

\* C29: every return of load_user_data_incremental with a non-empty existing
\* table (new rows merged, no new rows, the fetch raised) caches the table it
\* returns, and that table holds every key of the existing table and exactly
\* the keys of the existing table and of the rows the fetch returned.
C29_NoDataLost ==
    [][ ( pc' = "done" /\ kind' = "incr" /\ ~ClearCache )
        => LET old == KeysOf(ExistingUpTo(svc, from_timestamp').rows)
               new == KeysOf(fetched'.rows)
               got == KeysOf(ret'.rows)
           IN  /\ cache' = ret'
               /\ old # {}
               /\ old \subseteq got
               /\ got = old \cup new ]_vars

\* An incremental call has returned the merge of an existing table with fetched
\* rows of which some were in the existing table and some were not.
C29_Witness ==
    /\ pc = "done"
    /\ kind = "incr"
    /\ cache = ret
    /\ KeysOf(fetched.rows) \cap KeysOf(ExistingUpTo(svc, from_timestamp).rows) # {}
    /\ KeysOf(fetched.rows) \ KeysOf(ExistingUpTo(svc, from_timestamp).rows) # {}
    /\ Len(ret.rows) < Len(fetched.rows) + Len(ExistingUpTo(svc, from_timestamp).rows)



\* C30: two extraction runs for the same user and kind are never in progress at
\* the same time, and no step writes or deletes the user's checkpoint file while
\* a run other than the one taking the step is between its start and its return.
C30_OneRunPerUser ==
    [][ /\ ~ ( cpc'[1].at = "loop" /\ cpc'[2].at = "loop" )
        /\ \A c \in Sessions :
             ( cpc[c].at = "loop" /\ cpc'[c] = cpc[c] ) => files' = files ]_vars

====
